---- MODULE Spec2Model ----
(***************************************************************************)
(* A model of concoord/nameserver.py: the Nameserver object (its domain    *)
(* configuration, the shared replica view and the zone revision), the UDP  *)
(* server loop and the handling of one datagram.                           *)
(*                                                                         *)
(* Strings are modelled by what the code does with them:                   *)
(*   - a domain string is the sequence of its '.'-separated pieces, i.e.   *)
(*     the value of domain.split('.'): "example.com" is <<"example","com">>*)
(*     and "" is <<"">>;                                                   *)
(*   - a dns.name.Name is a record [isName |-> TRUE, labels |-> ...], an   *)
(*     absolute name ending with the empty root label; a plain str is      *)
(*     [isName |-> FALSE, labels |-> ...];                                 *)
(*   - the zone revision is a sequence of decimal digits;                  *)
(*   - the textual response is a record of its header lines and, per       *)
(*     section, the sequence of its record lines ('' is <<>>).             *)
(* Labels are taken in one letter case (dnspython compares names without   *)
(* regard to case).  Record class is always IN and is not modelled.        *)
(***************************************************************************)
EXTENDS Integers, Sequences, FiniteSets, TLC

VARIABLES
    mydomain,      \* self.mydomain: a Name, or a str for a domain without interior dot
    mysrvdomain,   \* self.mysrvdomain: Name of _concoord._tcp.<domain>.
    ipconverter,   \* self.ipconverter: the labels of '.ipaddr.'+domain+'.'
    replicas,      \* self.replicas: the view shared with the membership collaborator
    revision,      \* self.revision: digits
    today,         \* the calendar day gmtime() currently reports (a day number)
    pc,            \* where udp_server_loop stands: "select", "handle", "crashed",
                   \* or "txtresponse" inside a txtresponse call followed step by step
    cur,           \* the datagram received and not yet handled: [data, addr]
    last,          \* what the last completed handle_query did
    frame          \* the txtresponse call in progress, when its loop is followed
                   \* step by step: the list iterator's index, the local txtstr,
                   \* and (history) the views self.replicas held during the call

vars == <<mydomain, mysrvdomain, ipconverter, replicas, revision, today, pc, cur, last,
          frame>>

----------------------------------------------------------------------------
(* Bounds of the model *)

MaxDay == 2          \* calendar days the clock may reach
MaxReplicas == 2     \* longest replica view
MaxQuestions == 2    \* most questions in one datagram
MaxSerial == 1       \* cap on same-day update() calls in the server specification
MaxCluster == 11     \* most replicas of the growing cluster
MaxChanges == 2      \* most view changes during one txtresponse call

----------------------------------------------------------------------------
(* Sequence helpers *)

Last(s) == s[Len(s)]

RECURSIVE Dedup(_)
\* the elements of s in order of first occurrence
Dedup(s) ==
    IF s = <<>> THEN <<>>
    ELSE LET r == Dedup(SubSeq(s, 1, Len(s) - 1))
         IN  IF \E i \in 1..Len(r) : r[i] = Last(s) THEN r ELSE Append(r, Last(s))

\* the orders a shuffle of s can produce
Shuffles(s) ==
    { [i \in 1..Len(s) |-> s[p[i]]] : p \in Permutations(1..Len(s)) }

\* Python's `sub in s` on strings
Contains(sub, s) ==
    \E i \in 0..(Len(s) - Len(sub)) : SubSeq(s, i + 1, i + Len(sub)) = sub

----------------------------------------------------------------------------
(* Clock and revision strings: strftime("%Y%m%d", gmtime()), str(), zfill() *)

\* day 1 is 2024-06-01; the model's days stay within June 2024
DateNumber(day) == 20240600 + day

RECURSIVE StrNat(_)
\* str(n) for n >= 0, as digits
StrNat(n) == IF n < 10 THEN <<n>> ELSE Append(StrNat(n \div 10), n % 10)

\* strftime("%Y%m%d", gmtime()) on calendar day `day`
strftime(day) == StrNat(DateNumber(day))

\* s.zfill(2)
zfill2(s) == IF Len(s) = 0 THEN <<0, 0>> ELSE IF Len(s) = 1 THEN <<0>> \o s ELSE s

\* int(revision[-2] + revision[-1])
int_last2(rev) == 10 * rev[Len(rev) - 1] + rev[Len(rev)]

\* the revision of the first update/construction of a day: date + str(0).zfill(2)
first_revision(day) == strftime(day) \o zfill2(StrNat(0))

\* update(): the date test reads the clock on day d1, the assignment reads it
\* again on day d2 (d2 = d1 unless midnight passes between the two calls)
update(rev, d1, d2) ==
    IF Contains(strftime(d1), rev)
    THEN strftime(d2) \o zfill2(StrNat(int_last2(rev) + 1))
    ELSE first_revision(d2)

----------------------------------------------------------------------------
(* Domain configuration: Nameserver.__init__ *)

SRVNAME == <<"_concoord", "_tcp">>

\* dns.name.Name(labels) raises EmptyLabel when a label other than the last is empty
EmptyLabel(labels) == \E i \in 1..(Len(labels) - 1) : labels[i] = ""

Name(labels) == [isName |-> TRUE, labels |-> labels]

Str(labels) == [isName |-> FALSE, labels |-> labels]

\* domain.find('.') > 0: the first dot exists and is not the first character
HasInteriorDot(domain) == Len(domain) > 1 /\ domain[1] # ""

\* (domain+'.').split('.')
SplitAbsolute(domain) == domain \o <<"">>

\* the domain strings offered to the constructor
DomainInputs ==
    { <<"example", "com">>, <<"localhost">>, <<"">>, <<"", "com">>, <<"example", "">> }

\* __init__ returns (no EmptyLabel is raised)
Accepted(domain) ==
    /\ HasInteriorDot(domain) => ~EmptyLabel(SplitAbsolute(domain))
    /\ ~EmptyLabel(SRVNAME \o SplitAbsolute(domain))

init_mydomain(domain) ==
    IF HasInteriorDot(domain) THEN Name(SplitAbsolute(domain)) ELSE Str(domain)

init_mysrvdomain(domain) == Name(SRVNAME \o SplitAbsolute(domain))

\* '.ipaddr.'+domain+'.', as the labels that follow the address
init_ipconverter(domain) == <<"ipaddr">> \o SplitAbsolute(domain)

----------------------------------------------------------------------------
(* Replica view *)

NODE_NAMESERVER == "NAMESERVER"
NODE_REPLICA == "REPLICA"

\* the cluster members that may appear in a view; two of them share an address
Peers ==
    { [addr |-> "10.0.0.1", port |-> 14000, type |-> NODE_REPLICA],
      [addr |-> "10.0.0.1", port |-> 14001, type |-> NODE_NAMESERVER],
      [addr |-> "10.0.0.2", port |-> 14000, type |-> NODE_NAMESERVER] }

\* views: sequences of distinct peers, at most MaxReplicas long
Views ==
    UNION { { v \in [1..n -> Peers] : \A i, j \in 1..n : i # j => v[i] # v[j] }
            : n \in 0..MaxReplicas }

\* the addresses of a cluster that grows one replica at a time
ClusterAddrs ==
    << "10.0.1.1", "10.0.1.2", "10.0.1.3", "10.0.1.4", "10.0.1.5", "10.0.1.6",
       "10.0.1.7", "10.0.1.8", "10.0.1.9", "10.0.1.10", "10.0.1.11", "10.0.1.12" >>

\* the i-th member of that cluster: the first is a nameserver, the others replicas
ClusterPeer(i) ==
    [addr |-> ClusterAddrs[i], port |-> 14000,
     type |-> IF i = 1 THEN NODE_NAMESERVER ELSE NODE_REPLICA]

\* concoord.utils.get_addresses: the address of each replica, in view order
get_addresses(view) == [i \in 1..Len(view) |-> view[i].addr]

\* concoord.utils.get_addressportpairs: (address, port) of each replica, in view order
get_addressportpairs(view) == [i \in 1..Len(view) |-> <<view[i].addr, view[i].port>>]

\* concoord.enums.node_names
node_names(type) == type

----------------------------------------------------------------------------
(* Questions and datagrams *)

\* record types a question may carry; MX stands for every type the server ignores
RdTypes == {"A", "AAAA", "TXT", "NS", "SRV", "SOA", "MX"}

\* the configured domain as an absolute name (mysrvdomain without SRVNAME)
DomainName == Name(SubSeq(mysrvdomain.labels, Len(SRVNAME) + 1, Len(mysrvdomain.labels)))

OtherName == Name(<<"other", "org", "">>)

\* names asked for: the domain, its service-discovery subdomain, a foreign name
QNames == {DomainName, mysrvdomain, OtherName}

Questions == [name : QNames, rdtype : RdTypes]

\* questions used in datagrams that carry more than one question
MultiQuestions ==
    { [name |-> DomainName, rdtype |-> "A"],
      [name |-> DomainName, rdtype |-> "TXT"],
      [name |-> DomainName, rdtype |-> "MX"] }

QuestionLists ==
    {<<>>} \cup { <<q>> : q \in Questions }
           \cup UNION { [1..n -> MultiQuestions] : n \in 2..MaxQuestions }

\* (message id, client address) of the datagrams
Origins ==
    { <<4660, "192.0.2.1">>, <<22136, "192.0.2.2">> }

\* wire data that dns.message.from_wire rejects
Malformed == [malformed |-> TRUE, id |-> 0, opcode |-> "QUERY", question |-> <<>>]

\* a message with opcode QUERY, as from_wire decodes it
Query(id, qs) == [malformed |-> FALSE, id |-> id, opcode |-> "QUERY", question |-> qs]

\* the same message sent with opcode STATUS
StatusQuery(id, qs) == [Query(id, qs) EXCEPT !.opcode = "STATUS"]

\* what recvfrom may return: (data, clientaddr)
Datagrams ==
    { [data |-> Query(o[1], qs), addr |-> o[2]] : o \in Origins, qs \in QuestionLists }
    \cup { [data |-> Malformed, addr |-> o[2]] : o \in Origins }
    \cup { [data |-> StatusQuery(o[1], qs), addr |-> o[2]]
           : o \in Origins, qs \in {<<>>, <<[name |-> DomainName, rdtype |-> "A"]>>} }

\* the datagrams of one client that hold exactly one question, of type SOA
SoaDatagrams ==
    { [data |-> Query(4660, <<q>>), addr |-> "192.0.2.1"]
      : q \in { x \in Questions : x.rdtype = "SOA" } }

\* the datagrams of one client that hold exactly one question, of type TXT
TxtDatagrams ==
    { [data |-> Query(4660, <<q>>), addr |-> "192.0.2.1"]
      : q \in { x \in Questions : x.rdtype = "TXT" } }

----------------------------------------------------------------------------
(* Query classifier *)

\* dns.name.Name.__eq__: a Name never equals an object that is not a Name
NameEq(a, b) == a.isName /\ b.isName /\ a.labels = b.labels

ismydomainname(question) ==
    \/ NameEq(question.name, mydomain)
    \/ (question.rdtype = "SRV" /\ NameEq(question.name, mysrvdomain))

\* a should_answer that forgets the domain test
should_answer_any_name(question) ==
    \/ question.rdtype = "AAAA"
    \/ question.rdtype = "A"
    \/ question.rdtype = "TXT"
    \/ question.rdtype = "NS"
    \/ question.rdtype = "SRV"
    \/ question.rdtype = "SOA"

should_answer(question) ==
    /\ \/ question.rdtype = "AAAA"
       \/ question.rdtype = "A"
       \/ question.rdtype = "TXT"
       \/ question.rdtype = "NS"
       \/ question.rdtype = "SRV"
       \/ question.rdtype = "SOA"
    /\ ismydomainname(question)

----------------------------------------------------------------------------
(* Dispatcher views: aresponse, nsresponse, srvresponse, txtresponse *)

aresponse(view) == get_addresses(view)

RECURSIVE nsresponse(_)
\* the addresses of the replicas whose type is NODE_NAMESERVER, in view order
nsresponse(view) ==
    IF view = <<>> THEN <<>>
    ELSE LET rest == nsresponse(SubSeq(view, 1, Len(view) - 1))
         IN  IF Last(view).type = NODE_NAMESERVER THEN Append(rest, Last(view).addr)
             ELSE rest

\* an srvresponse that yields the bare address as the target
srvresponse_bare_address(view) ==
    [i \in 1..Len(get_addressportpairs(view)) |->
        [target |-> <<get_addressportpairs(view)[i][1]>>,
         port |-> get_addressportpairs(view)[i][2]]]

\* (address + self.ipconverter, port) per replica
srvresponse(view) ==
    [i \in 1..Len(view) |->
        [target |-> <<get_addressportpairs(view)[i][1]>> \o ipconverter,
         port |-> get_addressportpairs(view)[i][2]]]

\* node_names[peer.type] +' '+ peer.addr + ':' + str(peer.port)
Segment(peer) == [role |-> node_names(peer.type), addr |-> peer.addr, port |-> peer.port]

RECURSIVE txtstr(_)
\* the string built by the loop of txtresponse: per peer the segment and a ';'
txtstr(view) ==
    IF view = <<>> THEN <<>>
    ELSE txtstr(SubSeq(view, 1, Len(view) - 1))
         \o << [role |-> node_names(Last(view).type),
                addr |-> Last(view).addr,
                port |-> Last(view).port], ";" >>

\* txtstr[:-1]
txtresponse(view) ==
    IF txtstr(view) = <<>> THEN <<>> ELSE SubSeq(txtstr(view), 1, Len(txtstr(view)) - 1)

----------------------------------------------------------------------------
(* Record formatter: one text line per answer record *)

ttl == 30
priority == 0
weight == 100
refreshrate == 86000
updateretry == 7200
expiry == 360000
minimum == 432000

\* create_answer_section for A and NS (resp = str(addr)) and TXT (resp = '"%s"' % txt)
create_answer_section(question, payload) ==
    [name |-> question.name, ttl |-> ttl, rdtype |-> question.rdtype, rdata |-> payload]

create_srv_answer_section(question, addr, port) ==
    [name |-> question.name, ttl |-> ttl, rdtype |-> question.rdtype,
     rdata |-> [priority |-> priority, weight |-> weight, port |-> port, target |-> addr]]

create_soa_answer_section(question) ==
    [name |-> question.name, ttl |-> ttl, rdtype |-> question.rdtype,
     rdata |-> [mname |-> mydomain.labels,
                rname |-> <<"dns-admin">> \o mydomain.labels,
                serial |-> revision,
                refresh |-> refreshrate,
                retry |-> updateretry,
                expire |-> expiry,
                minimum |-> minimum]]

\* the answer string handle_query builds for one answerable question
answerstr(question, view) ==
    CASE question.rdtype = "AAAA" -> <<>>
      [] question.rdtype = "A" ->
            [i \in 1..Len(aresponse(view)) |->
                create_answer_section(question, aresponse(view)[i])]
      [] question.rdtype = "TXT" ->
            << create_answer_section(question, txtresponse(view)) >>
      [] question.rdtype = "NS" ->
            [i \in 1..Len(nsresponse(view)) |->
                create_answer_section(question, nsresponse(view)[i])]
      [] question.rdtype = "SOA" -> << create_soa_answer_section(question) >>
      [] question.rdtype = "SRV" ->
            [i \in 1..Len(srvresponse(view)) |->
                create_srv_answer_section(question, srvresponse(view)[i].target,
                                          srvresponse(view)[i].port)]

\* a flagstr that marks every response authoritative
flagstr_always_aa(question) == "QR AA"

\* flagstr of handle_query
flagstr(question) == IF question.rdtype = "AAAA" THEN "QR" ELSE "QR AA"

----------------------------------------------------------------------------
(* Response builder: create_response *)

OPCODES == <<"QUERY", "IQUERY", "STATUS">>
RCODES == <<"NOERROR", "FORMERR", "SERVFAIL", "NXDOMAIN", "NOTIMP", "REFUSED">>

\* dns.opcode.QUERY and dns.rcode.NOERROR
opcode_QUERY == 0
rcode_NOERROR == 0

\* a create_response that writes every section header, also over no records
create_response_empty_sections(id, opcode, rcode, flags, question, answer, authority, additional) ==
    [id |-> id,
     opcode |-> OPCODES[opcode + 1],
     rcode |-> RCODES[rcode + 1],
     flags |-> flags,
     question |-> <<question>>,
     sections |-> {"ANSWER", "AUTHORITY", "ADDITIONAL"},
     answer |-> answer,
     authority |-> authority,
     additional |-> additional]

\* the text of a response: a section is present only when its string is not ''
create_response(id, opcode, rcode, flags, question, answer, authority, additional) ==
    [id |-> id,
     opcode |-> OPCODES[opcode + 1],
     rcode |-> RCODES[rcode + 1],
     flags |-> flags,
     question |-> <<question>>,
     sections |-> (IF answer # <<>> THEN {"ANSWER"} ELSE {})
                  \cup (IF authority # <<>> THEN {"AUTHORITY"} ELSE {})
                  \cup (IF additional # <<>> THEN {"ADDITIONAL"} ELSE {}),
     answer |-> answer,
     authority |-> authority,
     additional |-> additional]

----------------------------------------------------------------------------
(* dnspython: make_response, from_text, to_wire, as handle_query uses them *)

RECURSIVE StripZeros(_)
\* the decimal digits of int(s): leading zeros removed
StripZeros(s) ==
    IF Len(s) > 1 /\ s[1] = 0 THEN StripZeros(SubSeq(s, 2, Len(s))) ELSE s

RECURSIVE LexLeq(_, _)
\* a <= b for digit strings of equal length
LexLeq(a, b) ==
    IF a = <<>> THEN TRUE
    ELSE IF a[1] # b[1] THEN a[1] < b[1]
    ELSE LexLeq(SubSeq(a, 2, Len(a)), SubSeq(b, 2, Len(b)))

\* the digits of 2^32 - 1
UINT32_MAX == <<4, 2, 9, 4, 9, 6, 7, 2, 9, 5>>

\* Tokenizer.get_uint32 accepts the digit string
IsUint32(s) ==
    \/ Len(StripZeros(s)) < Len(UINT32_MAX)
    \/ Len(StripZeros(s)) = Len(UINT32_MAX) /\ LexLeq(StripZeros(s), UINT32_MAX)

\* dns.message.make_response(query): the query's id, opcode and question, flag QR,
\* no records
make_response(query) ==
    [id |-> query.id,
     opcode |-> query.opcode,
     rcode |-> RCODES[rcode_NOERROR + 1],
     flags |-> "QR",
     question |-> query.question,
     answer |-> <<>>,
     authority |-> <<>>,
     additional |-> <<>>]

RECURSIVE txt_len(_)
\* len() of the string txtresponse returns
txt_len(txt) ==
    IF txt = <<>> THEN 0
    ELSE txt_len(SubSeq(txt, 1, Len(txt) - 1))
         + (IF Len(txt) % 2 = 0 THEN Len(Last(txt))
            ELSE Len(Last(txt).role) + Len(" ") + Len(Last(txt).addr) + Len(":")
                 + Len(StrNat(Last(txt).port)))

\* parsing one record line raises a dns.exception.SyntaxError: an SOA serial
\* that is no unsigned 32-bit integer, a TXT string longer than 255 characters
line_raises(line) ==
    \/ line.rdtype = "SOA" /\ ~IsUint32(line.rdata.serial)
    \/ line.rdtype = "TXT" /\ txt_len(line.rdata) > 255

\* dns.message.from_text(responsestr) raises
from_text_raises(text) ==
    \E i \in 1..Len(text.answer) : "ANSWER" \in text.sections /\ line_raises(text.answer[i])

\* the rdata a record line parses to.  The target of an NS line is read as a
\* domain name with no origin: the text str(addr) carries no final dot, so the
\* name is the relative name of that text, without the root label.
parse_rdata(line) ==
    CASE line.rdtype = "SOA" -> [line.rdata EXCEPT !.serial = StripZeros(line.rdata.serial)]
      [] line.rdtype = "NS" -> <<line.rdata>>
      [] OTHER -> line.rdata

\* the lines of a section, as RRsets: lines of one owner name and type form one
\* RRset, and an RRset holds each rdata once (Rdataset.add skips a duplicate)
rrsets(lines) ==
    LET keys == Dedup([i \in 1..Len(lines) |-> <<lines[i].name, lines[i].rdtype>>])
        of(k) == SelectSeq(lines, LAMBDA l : <<l.name, l.rdtype>> = k)
    IN  [j \in 1..Len(keys) |->
            [name |-> keys[j][1],
             rdtype |-> keys[j][2],
             ttl |-> of(keys[j])[1].ttl,
             rdatas |-> Dedup([i \in 1..Len(of(keys[j])) |-> parse_rdata(of(keys[j])[i])])]]

\* dns.message.from_text(responsestr), when it does not raise
from_text(text) ==
    [id |-> text.id,
     opcode |-> text.opcode,
     rcode |-> text.rcode,
     flags |-> text.flags,
     question |-> text.question,
     answer |-> IF "ANSWER" \in text.sections THEN rrsets(text.answer) ELSE <<>>,
     authority |-> IF "AUTHORITY" \in text.sections THEN rrsets(text.authority) ELSE <<>>,
     additional |-> IF "ADDITIONAL" \in text.sections THEN rrsets(text.additional) ELSE <<>>]

\* the records of one RRset in the orders Rdataset.to_wire may emit them
\* (want_shuffle defaults to True: the rdatas are shuffled before rendering)
rrset_to_wire(rrset) ==
    { [i \in 1..Len(order) |->
          [name |-> rrset.name, rdtype |-> rrset.rdtype, ttl |-> rrset.ttl,
           rdata |-> order[i]]] : order \in Shuffles(rrset.rdatas) }

RECURSIVE section_to_wire(_)
\* the record sequences a section may be rendered to
section_to_wire(sets) ==
    IF sets = <<>> THEN {<<>>}
    ELSE { head \o tail : head \in section_to_wire(SubSeq(sets, 1, Len(sets) - 1)),
                          tail \in rrset_to_wire(Last(sets)) }

\* response.to_wire() raises dns.name.NeedAbsoluteNameOrOrigin: a name in an
\* rdata is relative (does not end with the root label) and no origin is given
to_wire_raises(msg) ==
    \E i \in 1..Len(msg.answer) :
        /\ msg.answer[i].rdtype = "NS"
        /\ \E j \in 1..Len(msg.answer[i].rdatas) : Last(msg.answer[i].rdatas[j]) # ""

\* response.to_wire(): the messages a client may decode from the bytes sent
to_wire(msg) ==
    { [id |-> msg.id, opcode |-> msg.opcode, rcode |-> msg.rcode, flags |-> msg.flags,
       question |-> msg.question, answer |-> an, authority |-> au, additional |-> ad]
      : an \in section_to_wire(msg.answer),
        au \in section_to_wire(msg.authority),
        ad \in section_to_wire(msg.additional) }

----------------------------------------------------------------------------
(* handle_query *)

NoMessage == <<>>
NoDatagram == [data |-> Malformed, addr |-> "nobody"]

\* a Result whose response goes to one fixed client, whoever sent the datagram
Result_to_fixed_client(kind, dgram, msg, why) ==
    [kind |-> kind, dgram |-> dgram, msg |-> msg,
     to |-> IF kind = "sent" THEN "192.0.2.1" ELSE "nobody", why |-> why]

\* no txtresponse call is in progress
NoFrame == [i |-> 0, txtstr |-> <<>>, views |-> {}]

\* what one call of handle_query did: kind is "sent" (sendto returned; msg went
\* to `to`), "silent" (returned without sending), "raised" (an exception left it;
\* why names the call that raised) or "none" (nothing handled yet)
Result(kind, dgram, msg, why) ==
    [kind |-> kind, dgram |-> dgram, msg |-> msg,
     to |-> IF kind = "sent" THEN dgram.addr ELSE "nobody", why |-> why]

\* responsestr of handle_query for one answerable question
responsestr(id, question) ==
    create_response(id, opcode_QUERY, rcode_NOERROR, flagstr(question), question,
                    answerstr(question, replicas), <<>>, <<>>)

RECURSIVE question_loop(_, _, _)
\* the for loop over query.question from its i-th question on; `response` is the
\* local variable.  Yields <<"send", response>>, <<"return">> or <<"raise">>.
question_loop(query, i, response) ==
    IF i > Len(query.question) THEN <<"send", response>>
    ELSE IF should_answer(query.question[i])
    THEN IF from_text_raises(responsestr(response.id, query.question[i]))
         THEN <<"raise">>
         ELSE question_loop(query, i + 1,
                            from_text(responsestr(response.id, query.question[i])))
    ELSE <<"return">>

\* a handle_query that sends nothing for a message without questions
handle_decoded_needs_question(dgram) ==
    IF dgram.data.question = <<>> THEN { Result("silent", dgram, NoMessage, "") }
    ELSE LET end == question_loop(dgram.data, 1, make_response(dgram.data))
         IN  CASE end[1] = "raise" -> { Result("raised", dgram, NoMessage, "from_text") }
               [] end[1] = "return" -> { Result("silent", dgram, NoMessage, "") }
               [] end[1] = "send" ->
                    { Result("sent", dgram, w, "") : w \in to_wire(end[2]) }

\* handle_query from make_response on, for data that from_wire decoded; to_wire
\* may raise, and sendto may raise socket.error
handle_decoded(dgram) ==
    LET end == question_loop(dgram.data, 1, make_response(dgram.data))
    IN  CASE end[1] = "raise" -> { Result("raised", dgram, NoMessage, "from_text") }
          [] end[1] = "return" -> { Result("silent", dgram, NoMessage, "") }
          [] end[1] = "send" ->
               IF to_wire_raises(end[2])
               THEN { Result("raised", dgram, NoMessage, "to_wire") }
               ELSE { Result("sent", dgram, w, "") : w \in to_wire(end[2]) }
                    \cup { Result("raised", dgram, NoMessage, "sendto") }

\* handle_query from from_text on, for one responsestr: from_text or to_wire may
\* raise, sendto may raise socket.error
send_response(dgram, text) ==
    IF from_text_raises(text) THEN { Result("raised", dgram, NoMessage, "from_text") }
    ELSE IF to_wire_raises(from_text(text))
    THEN { Result("raised", dgram, NoMessage, "to_wire") }
    ELSE { Result("sent", dgram, w, "") : w \in to_wire(from_text(text)) }
         \cup { Result("raised", dgram, NoMessage, "sendto") }

\* a handle_query that answers undecodable data with a FORMERR response
handle_query_formerr(dgram) ==
    IF dgram.data.malformed
    THEN { Result("sent", dgram, [make_response(dgram.data) EXCEPT !.rcode = "FORMERR"], "") }
    ELSE handle_decoded(dgram)

\* the outcomes of handle_query(data, addr) in the current state:
\* dns.message.from_wire(data) raises on data it cannot decode
handle_query(dgram) ==
    IF dgram.data.malformed THEN { Result("raised", dgram, NoMessage, "from_wire") }
    ELSE handle_decoded(dgram)

----------------------------------------------------------------------------
(* udp_server_loop *)

\* the `except Exception as e` clause: print(..., e.message) and continue.  An
\* exception object without a `message` attribute (any exception under Python 3)
\* makes the clause itself raise AttributeError, which leaves the loop.
except_clause(hasMessage) == IF hasMessage THEN "select" ELSE "crashed"

\* select() reports the socket readable and recvfrom returns a datagram
Receive(pool) ==
    /\ pc = "select"
    /\ \E d \in pool :
          /\ cur' = d
          /\ pc' = "handle"
          /\ last' = Result("none", NoDatagram, NoMessage, "")
    /\ UNCHANGED <<frame, mydomain, mysrvdomain, ipconverter, replicas, revision, today>>

\* select() or recvfrom raises socket.error
ReceiveError ==
    /\ pc = "select"
    /\ \E hasMessage \in BOOLEAN : pc' = except_clause(hasMessage)
    /\ last' = Result("raised", NoDatagram, NoMessage, "recvfrom")
    /\ UNCHANGED <<frame, mydomain, mysrvdomain, ipconverter, replicas, revision, today, cur>>

\* self.handle_query(data, clientaddr) runs to its end, or to the except clause
HandleQuery ==
    /\ pc = "handle"
    /\ \E r \in handle_query(cur) :
          /\ last' = r
          /\ IF r.kind = "raised"
             THEN \E hasMessage \in BOOLEAN : pc' = except_clause(hasMessage)
             ELSE pc' = "select"
    /\ cur' = NoDatagram
    /\ UNCHANGED <<frame, mydomain, mysrvdomain, ipconverter, replicas, revision, today>>

----------------------------------------------------------------------------
(* The collaborators: the clock and the membership mechanism *)

\* midnight (UTC) passes
Tick ==
    /\ today < MaxDay
    /\ today' = today + 1
    /\ UNCHANGED <<frame, mydomain, mysrvdomain, ipconverter, replicas, revision, pc, cur, last>>

\* Nameserver.update(), called by the membership mechanism; midnight may pass
\* between its two readings of the clock
Update ==
    /\ \E d2 \in {today, today + 1} :
          /\ d2 <= MaxDay
          /\ revision' = update(revision, today, d2)
          /\ today' = d2
    /\ UNCHANGED <<frame, mydomain, mysrvdomain, ipconverter, replicas, pc, cur, last>>

\* update() while the serial of the revision is below the cap of the server
\* specification
UpdateCapped ==
    /\ int_last2(revision) < MaxSerial
    /\ Len(revision) = Len(first_revision(today))
    /\ Update

\* the membership mechanism changes the view it shares with the nameserver
ViewChange ==
    /\ \E v \in Views : v # replicas /\ replicas' = v
    /\ UNCHANGED <<frame, mydomain, mysrvdomain, ipconverter, revision, today, pc, cur, last>>

----------------------------------------------------------------------------
(* Specifications *)

\* the state after Nameserver(addr, domain, replicas, debug) returned
Init ==
    /\ \E domain \in DomainInputs :
          /\ Accepted(domain)
          /\ mydomain = init_mydomain(domain)
          /\ mysrvdomain = init_mysrvdomain(domain)
          /\ ipconverter = init_ipconverter(domain)
    /\ replicas \in Views
    /\ today = 1
    /\ revision = first_revision(today)
    /\ pc = "select"
    /\ cur = NoDatagram
    /\ last = Result("none", NoDatagram, NoMessage, "")
    /\ frame = NoFrame

\* the server: every datagram, view changes, a capped number of updates a day
Next ==
    \/ Receive(Datagrams)
    \/ ReceiveError
    \/ HandleQuery
    \/ UpdateCapped
    \/ ViewChange

Spec == Init /\ [][Next]_vars

\* the zone revision tracker with ZONE_AUTHORITY queries: updates are not capped
NextRevision ==
    \/ Receive(SoaDatagrams)
    \/ HandleQuery
    \/ Tick
    \/ Update

SpecRevision == Init /\ [][NextRevision]_vars

\* the membership mechanism appends a replica that joined the cluster
Join ==
    /\ Len(replicas) < MaxCluster
    /\ replicas' = Append(replicas, ClusterPeer(Len(replicas) + 1))
    /\ UNCHANGED <<frame, mydomain, mysrvdomain, ipconverter, revision, today, pc, cur, last>>

\* the membership mechanism removes the replica that joined last
Leave ==
    /\ Len(replicas) > 1
    /\ replicas' = SubSeq(replicas, 1, Len(replicas) - 1)
    /\ UNCHANGED <<frame, mydomain, mysrvdomain, ipconverter, revision, today, pc, cur, last>>

\* the state after construction with a view that holds the nameserver itself
InitCluster ==
    /\ \E domain \in DomainInputs :
          /\ Accepted(domain)
          /\ mydomain = init_mydomain(domain)
          /\ mysrvdomain = init_mysrvdomain(domain)
          /\ ipconverter = init_ipconverter(domain)
    /\ replicas = <<ClusterPeer(1)>>
    /\ today = 1
    /\ revision = first_revision(today)
    /\ pc = "select"
    /\ cur = NoDatagram
    /\ last = Result("none", NoDatagram, NoMessage, "")
    /\ frame = NoFrame

\* TEXT queries against a cluster that grows and shrinks
NextCluster ==
    \/ Receive(TxtDatagrams)
    \/ HandleQuery
    \/ Join
    \/ Leave

SpecCluster == InitCluster /\ [][NextCluster]_vars

\* the datagrams with one TEXT question that the classifier accepts
AnswerableTxtDatagrams ==
    { d \in TxtDatagrams : should_answer(d.data.question[1]) }

\* the lists one list.append or list.remove turns the shared list into
InPlaceChanges(view) ==
    { Append(view, p) : p \in { x \in Peers : /\ Len(view) < MaxReplicas
                                               /\ \A i \in 1..Len(view) : view[i] # x } }
    \cup { SubSeq(view, 1, i - 1) \o SubSeq(view, i + 1, Len(view)) : i \in 1..Len(view) }

\* handle_query reaches self.txtresponse(question): txtstr = '' and the for
\* statement takes an iterator over the list self.replicas
CallTxtresponse ==
    /\ pc = "handle"
    /\ ~cur.data.malformed
    /\ Len(cur.data.question) = 1
    /\ cur.data.question[1].rdtype = "TXT"
    /\ should_answer(cur.data.question[1])
    /\ pc' = "txtresponse"
    /\ frame' = [i |-> 0, txtstr |-> <<>>, views |-> {replicas}]
    /\ UNCHANGED <<mydomain, mysrvdomain, ipconverter, replicas, revision, today, cur, last>>

\* one iteration of `for peer in self.replicas`: the iterator yields the element
\* at its index of the list as it is now, and the body appends the segment
TxtIterate ==
    /\ pc = "txtresponse"
    /\ frame.i < Len(replicas)
    /\ frame' = [frame EXCEPT !.i = @ + 1,
                              !.txtstr = @ \o <<Segment(replicas[frame.i + 1]), ";">>]
    /\ UNCHANGED <<mydomain, mysrvdomain, ipconverter, replicas, revision, today, pc, cur, last>>

\* the iterator is exhausted: txtresponse returns txtstr[:-1] and handle_query
\* builds the response from it and sends it
TxtReturn ==
    /\ pc = "txtresponse"
    /\ frame.i >= Len(replicas)
    /\ \E r \in send_response(cur,
              create_response(cur.data.id, opcode_QUERY, rcode_NOERROR,
                              flagstr(cur.data.question[1]), cur.data.question[1],
                              << create_answer_section(cur.data.question[1],
                                    SubSeq(frame.txtstr, 1, Len(frame.txtstr) - 1)) >>,
                              <<>>, <<>>)) :
          /\ last' = r
          /\ IF r.kind = "raised"
             THEN \E hasMessage \in BOOLEAN : pc' = except_clause(hasMessage)
             ELSE pc' = "select"
    /\ cur' = NoDatagram
    /\ frame' = NoFrame
    /\ UNCHANGED <<mydomain, mysrvdomain, ipconverter, replicas, revision, today>>

\* the membership mechanism, on its own thread, changes the shared list in place
\* while txtresponse runs
ViewChangeDuringQuery ==
    /\ pc = "txtresponse"
    /\ Cardinality(frame.views) <= MaxChanges
    /\ \E v \in InPlaceChanges(replicas) :
          /\ replicas' = v
          /\ frame' = [frame EXCEPT !.views = @ \cup {v}]
    /\ UNCHANGED <<mydomain, mysrvdomain, ipconverter, revision, today, pc, cur, last>>

\* TEXT queries handled while the membership mechanism runs concurrently
NextConcurrent ==
    \/ Receive(AnswerableTxtDatagrams)
    \/ CallTxtresponse
    \/ TxtIterate
    \/ TxtReturn
    \/ ViewChangeDuringQuery

SpecConcurrent == Init /\ [][NextConcurrent]_vars

----------------------------------------------------------------------------
(* Vocabulary of the properties *)

\* record types the responder supports
Supported(rdtype) == rdtype \in {"A", "AAAA", "TXT", "NS", "SRV", "SOA"}

\* the question's name is the configured domain, or it is a SERVICE question
\* for the service-discovery subdomain
InScope(question) ==
    \/ question.name = DomainName
    \/ (question.rdtype = "SRV" /\ question.name = mysrvdomain)

\* a handle_query call has completed on a datagram
Handled == last.kind \in {"sent", "silent", "raised"} /\ last.dgram # NoDatagram

\* the datagram decodes to a message with exactly one question
SingleQuestion(dgram) == ~dgram.data.malformed /\ Len(dgram.data.question) = 1

\* this step is the handling of the datagram held in cur
HandlingStep == pc = "handle" /\ pc' # pc

\* the YYYYMMDD part of a revision and what follows it
DatePart(rev) == SubSeq(rev, 1, Len(strftime(today)))
SerialPart(rev) == SubSeq(rev, Len(strftime(today)) + 1, Len(rev))

RECURSIVE DigitsValue(_)
\* the number a short digit string denotes
DigitsValue(s) ==
    IF s = <<>> THEN 0 ELSE 10 * DigitsValue(SubSeq(s, 1, Len(s) - 1)) + Last(s)

\* this step is an update() that starts and ends on the day the revision holds
SameDayUpdate ==
    /\ revision' # revision
    /\ today' = today
    /\ DatePart(revision) = strftime(today)

\* payload.split(';') of a TXT payload: the segments between the semicolons; the
\* empty payload splits into one empty segment
split_semicolon(txt) ==
    IF txt = <<>> THEN <<"">>
    ELSE [i \in 1..((Len(txt) + 1) \div 2) |-> txt[2 * i - 1]]

----------------------------------------------------------------------------
(* Properties *)

\* C1: a datagram whose only question is out of scope or of an unsupported record
\* type makes handle_query return without sending anything: no response and no
\* error response.
C1_SilentOnUnansweredQuestion ==
    (/\ Handled
     /\ SingleQuestion(last.dgram)
     /\ \/ ~InScope(last.dgram.data.question[1])
        \/ ~Supported(last.dgram.data.question[1].rdtype))
    => (last.kind = "silent" /\ last.to = "nobody")

\* C1 witness: handle_query has returned on a datagram whose only question names
\* a foreign domain
C1_Witness ==
    /\ Handled
    /\ SingleQuestion(last.dgram)
    /\ ~InScope(last.dgram.data.question[1])
    /\ Supported(last.dgram.data.question[1].rdtype)
    /\ last.kind = "silent"

\* C2: whatever domain the constructor accepted, a question is answered iff its
\* record type is supported and it is in scope.
C2_AnsweredIffSupportedAndInScope ==
    (Handled /\ SingleQuestion(last.dgram))
    => ((last.kind # "silent")
        <=> (/\ Supported(last.dgram.data.question[1].rdtype)
             /\ InScope(last.dgram.data.question[1])))

\* C3: an error raised while a datagram is received or handled does not end the
\* server loop.
C3_LoopSurvivesErrors == last.kind = "raised" => pc # "crashed"

\* C4: handling a datagram that fails to decode sends nothing and leaves the
\* zone revision and the replica view as they were.
C4_UndecodableDatagramIsDiscarded ==
    [][(HandlingStep /\ cur.data.malformed)
       => (/\ last'.kind = "raised"
           /\ last'.to = "nobody"
           /\ revision' = revision
           /\ replicas' = replicas)]_vars

\* C4 witness: from_wire has raised on a datagram
C4_Witness ==
    /\ Handled
    /\ last.dgram.data.malformed
    /\ last.kind = "raised"
    /\ last.why = "from_wire"

\* C5: however many update() calls a day sees, each keeps the date and raises
\* the serial by exactly 1, so the revision never decreases or repeats that day.
C5_SameDayUpdateAddsOne ==
    [][SameDayUpdate
       => (/\ DatePart(revision') = DatePart(revision)
           /\ DigitsValue(SerialPart(revision')) = DigitsValue(SerialPart(revision)) + 1)]_vars

\* C6: the first revision of a calendar day has serial 00: whenever the date held
\* in the revision changes, the new revision is <that day>00 (and construction
\* starts the first day at 00).
C6_FirstRevisionOfDayIsZero ==
    [][DatePart(revision') # DatePart(revision)
       => SerialPart(revision') = <<0, 0>>]_vars

\* C7: the zone revision is always the 8-digit date followed by a two-digit
\* serial, 10 characters in all.
C7_RevisionIsDatePlusTwoDigits ==
    /\ Len(revision) = Len(strftime(today)) + 2
    /\ \E day \in 1..MaxDay : DatePart(revision) = strftime(day)
    /\ \A i \in 1..Len(revision) : revision[i] \in 0..9

\* C8: a ZONE_AUTHORITY query for the domain (a name the classifier takes for the
\* configured domain) is answered with exactly one record, which carries the
\* zone revision as it stands at handling time and the four fixed timers.
C8_SoaCarriesCurrentRevision ==
    [][(/\ HandlingStep
        /\ SingleQuestion(cur)
        /\ cur.data.question[1].rdtype = "SOA"
        /\ cur.data.question[1].name = DomainName
        /\ ismydomainname(cur.data.question[1]))
       => (/\ last'.kind = "sent" \/ last'.why = "sendto"
           /\ last'.kind = "sent"
              => (/\ Len(last'.msg.answer) = 1
                  /\ last'.msg.answer[1].rdtype = "SOA"
                  /\ last'.msg.answer[1].rdata.serial = revision
                  /\ last'.msg.answer[1].rdata.refresh = 86000
                  /\ last'.msg.answer[1].rdata.retry = 7200
                  /\ last'.msg.answer[1].rdata.expire = 360000
                  /\ last'.msg.answer[1].rdata.minimum = 432000))]_vars

\* C9: handling a datagram leaves the zone revision and the replica view as they
\* were, and handling the same datagram again in the same state yields the same
\* response.
C9_HandlingIsPureAndRepeatable ==
    [][HandlingStep
       => (/\ revision' = revision
           /\ replicas' = replicas
           /\ last'.kind = "sent"
              => \A again \in handle_query(cur) :
                    again.kind = "sent" => again.msg = last'.msg)]_vars

\* C10: an ADDRESS query against a view of N replicas is answered with N records
\* whose addresses are the replicas' addresses in view order.
C10_AddressAnswersFollowView ==
    [][(/\ HandlingStep
        /\ SingleQuestion(cur)
        /\ cur.data.question[1].rdtype = "A"
        /\ last'.kind = "sent")
       => (/\ Len(last'.msg.answer) = Len(replicas)
           /\ \A i \in 1..Len(replicas) :
                 /\ last'.msg.answer[i].rdtype = "A"
                 /\ last'.msg.answer[i].rdata = replicas[i].addr)]_vars

C12_TextAnswerListsEveryReplica ==
    [][(/\ HandlingStep
        /\ SingleQuestion(cur)
        /\ cur.data.question[1].rdtype = "TXT"
        /\ should_answer(cur.data.question[1]))
       => (/\ last'.kind = "sent" \/ last'.why = "sendto"
           /\ last'.kind = "sent"
              => (/\ Len(last'.msg.answer) = 1
                  /\ last'.msg.answer[1].rdtype = "TXT"
                  /\ Len(split_semicolon(last'.msg.answer[1].rdata)) = Len(replicas)
                  /\ \A i \in 1..Len(replicas) :
                        split_semicolon(last'.msg.answer[1].rdata)[i]
                            = Segment(replicas[i])))]_vars


\* C13: a NAME_SERVER query that the classifier accepts is answered with exactly
\* one record per replica whose type is NODE_NAMESERVER and none for the others,
\* in view order, each record's payload being that replica's bare address.
C13_NameServerAnswersFollowView ==
    [][(/\ HandlingStep
        /\ SingleQuestion(cur)
        /\ cur.data.question[1].rdtype = "NS"
        /\ should_answer(cur.data.question[1]))
       => (/\ last'.kind = "sent" \/ last'.why = "sendto"
           /\ last'.kind = "sent"
              => (/\ Len(last'.msg.answer) = Len(nsresponse(replicas))
                  /\ \A i \in 1..Len(nsresponse(replicas)) :
                        /\ last'.msg.answer[i].rdtype = "NS"
                        /\ last'.msg.answer[i].rdata = <<nsresponse(replicas)[i]>>))]_vars


\* C14: a SERVICE query that the classifier accepts is answered with one record
\* per (address, port) pair of the view (in some order), each with the queried
\* name as owner, priority 0, weight 100, the pair's port, and the target
\* '<address>.ipaddr.<domain>.'.
C14_ServiceAnswersCoverView ==
    [][(/\ HandlingStep
        /\ SingleQuestion(cur)
        /\ cur.data.question[1].rdtype = "SRV"
        /\ should_answer(cur.data.question[1]))
       => (/\ last'.kind = "sent" \/ last'.why = "sendto"
           /\ last'.kind = "sent"
              => (/\ Len(last'.msg.answer) = Len(replicas)
                  /\ \A i \in 1..Len(last'.msg.answer) :
                        /\ last'.msg.answer[i].rdtype = "SRV"
                        /\ last'.msg.answer[i].name = cur.data.question[1].name
                        /\ last'.msg.answer[i].rdata.priority = 0
                        /\ last'.msg.answer[i].rdata.weight = 100
                  /\ \A i \in 1..Len(replicas) :
                        \E j \in 1..Len(last'.msg.answer) :
                           /\ last'.msg.answer[j].rdata.port = replicas[i].port
                           /\ last'.msg.answer[j].rdata.target
                                = <<replicas[i].addr, "ipaddr">> \o DomainName.labels))]_vars

\* C14 witness: a SERVICE query for the service-discovery subdomain has been
\* answered with two records while the view holds two replicas
C14_Witness ==
    /\ Handled
    /\ SingleQuestion(last.dgram)
    /\ last.dgram.data.question[1].rdtype = "SRV"
    /\ last.dgram.data.question[1].name = mysrvdomain
    /\ last.kind = "sent"
    /\ Len(last.msg.answer) = 2
    /\ Len(replicas) = 2


\* C15: every response that is sent carries the id of the query it answers,
\* opcode QUERY and rcode NOERROR, and its question section is the question
\* section of the query, unchanged.
C15_ResponseEchoesQuery ==
    (Handled /\ last.kind = "sent")
    => (/\ last.msg.id = last.dgram.data.id
        /\ last.msg.opcode = "QUERY"
        /\ last.msg.rcode = "NOERROR"
        /\ last.msg.question = last.dgram.data.question)


\* C16: a section that would hold zero records is left out of the response text:
\* an answerable ADDRESS, NAME_SERVER or SERVICE query against a view with no
\* matching replica still gets one response, which has no ANSWER section and no
\* answer records, and no response ever has an AUTHORITY or ADDITIONAL section.
C16_EmptySectionsAreOmitted ==
    [][HandlingStep
       => (/\ last'.kind = "sent"
              => (last'.msg.authority = <<>> /\ last'.msg.additional = <<>>)
           /\ (SingleQuestion(cur) /\ should_answer(cur.data.question[1]))
              => LET q == cur.data.question[1]
                     text == responsestr(cur.data.id, q)
                 IN  /\ "ANSWER" \in text.sections <=> text.answer # <<>>
                     /\ "AUTHORITY" \notin text.sections
                     /\ "ADDITIONAL" \notin text.sections
                     /\ (\/ q.rdtype \in {"A", "SRV"} /\ replicas = <<>>
                         \/ q.rdtype = "NS" /\ nsresponse(replicas) = <<>>)
                        => (/\ text.sections = {}
                            /\ last'.kind = "sent" \/ last'.why = "sendto"
                            /\ last'.kind = "sent" => last'.msg.answer = <<>>))]_vars

\* C16 witness: a NAME_SERVER query has been answered without answer records
\* while the only replica of the view is not nameserver-capable
C16_Witness ==
    /\ Handled
    /\ SingleQuestion(last.dgram)
    /\ last.dgram.data.question[1].rdtype = "NS"
    /\ last.kind = "sent"
    /\ last.msg.answer = <<>>
    /\ Len(replicas) = 1
    /\ replicas[1].type # NODE_NAMESERVER


\* C17: in a datagram with several questions every answerable question is
\* answered: no response is sent only when no question is answerable, and the
\* response that is sent holds the answer records of each answerable question.
C17_EveryAnswerableQuestionIsAnswered ==
    [][(/\ HandlingStep
        /\ ~cur.data.malformed
        /\ Len(cur.data.question) > 1)
       => (/\ (\E i \in 1..Len(cur.data.question) : should_answer(cur.data.question[i]))
              => last'.kind # "silent"
           /\ last'.kind = "sent"
              => \A i \in 1..Len(cur.data.question) :
                    should_answer(cur.data.question[i])
                    => \A k \in 1..Len(answerstr(cur.data.question[i], replicas)) :
                          \E j \in 1..Len(last'.msg.answer) :
                             /\ last'.msg.answer[j].name = cur.data.question[i].name
                             /\ last'.msg.answer[j].rdtype = cur.data.question[i].rdtype
                             /\ last'.msg.answer[j].rdata
                                  = answerstr(cur.data.question[i], replicas)[k].rdata)]_vars


\* C18: the loop handles each datagram to completion before it receives the next
\* one; a response is sent only by the handling of the datagram received last,
\* once per datagram, and it goes to the sender of that datagram.
C18_OneResponseToTheSenderInOrder ==
    [][/\ (cur' # cur /\ cur' # NoDatagram)
          => (pc = "select" /\ cur = NoDatagram /\ pc' = "handle")
       /\ pc = "handle" => (cur # NoDatagram /\ last.kind = "none")
       /\ (last'.kind = "sent" /\ last.kind # "sent")
          => (/\ HandlingStep
              /\ last'.dgram = cur
              /\ last'.to = cur.addr
              /\ cur' = NoDatagram
              /\ pc' = "select")
       /\ (last'.kind = "sent" /\ last.kind = "sent")
          => (pc' = pc /\ cur' = cur /\ last'.dgram = last.dgram /\ last'.to = last.to)]_vars

\* C18 witness: the datagram of the second client has been answered, to that
\* client, and the loop is back at select
C18_Witness ==
    /\ Handled
    /\ last.kind = "sent"
    /\ last.dgram.addr = "192.0.2.2"
    /\ last.to = "192.0.2.2"
    /\ pc = "select"
    /\ cur = NoDatagram


\* C20: a datagram that decodes to a message with zero questions is answered:
\* handle_query skips the question loop and sends one response, without answer
\* records, to the sender (unless sendto itself fails).
C20_NoQuestionIsAnswered ==
    [][(/\ HandlingStep
        /\ ~cur.data.malformed
        /\ cur.data.question = <<>>)
       => (/\ last'.kind = "sent" \/ last'.why = "sendto"
           /\ last'.kind = "sent"
              => (/\ last'.to = cur.addr
                  /\ last'.msg.id = cur.data.id
                  /\ last'.msg.question = <<>>
                  /\ last'.msg.answer = <<>>))]_vars

\* C20 witness: a message without questions has been answered
C20_Witness ==
    /\ Handled
    /\ ~last.dgram.data.malformed
    /\ last.dgram.data.question = <<>>
    /\ last.kind = "sent"
    /\ last.to = last.dgram.addr


\* C19: when the membership mechanism changes the view while a query is being
\* handled, the response reflects one consistent view: the payload of a TEXT
\* answer is the one of a view that self.replicas held during the handling
\* (the view before the change or a view after it), never a mix.
C19_ResponseReflectsOneView ==
    [][(/\ pc = "txtresponse"
        /\ pc' # pc
        /\ last'.kind = "sent")
       => (/\ Len(last'.msg.answer) = 1
           /\ \E v \in frame.views : last'.msg.answer[1].rdata = txtresponse(v))]_vars


====
